---- MODULE Spec2Model ----
(***************************************************************************)
(* A model of the Bingham material (include/material/bingham.tcc) and of   *)
(* the particle/cell association declared in include/particle.h.            *)
(*                                                                          *)
(* Doubles are modelled as exact decimal-scaled rationals (n/d) * 10^e in   *)
(* canonical form, so that 1.0E-15 and ordinary magnitudes live side by     *)
(* side without leaving TLC's integer range.  NaN, infinities and rounding  *)
(* are outside the model: inputs are finite and poisson_ratio differs from  *)
(* 1/2.                                                                     *)
(***************************************************************************)
EXTENDS Integers, Sequences, FiniteSets, TLC

VARIABLES
  Tdim,                  \* template parameter of the instantiation
  density_, youngs_modulus_, poisson_ratio_, tau0_, mu_,
  critical_shear_rate_,  \* Bingham members read by compute_stress
  properties_,           \* the Json last accepted by properties()
  status_,               \* Material status flag
  call,                  \* the last completed call on the material
  pc, arg, csr, ret,      \* per-thread progress of concurrent compute_stress calls
  coordinates_, cell_, xi_,  \* per-particle position, cell reference, local coords
  members,               \* per-cell set of particle ids
  pcall                  \* the last completed call on a particle

matvars == <<density_, youngs_modulus_, poisson_ratio_, tau0_, mu_,
             critical_shear_rate_, properties_, status_>>
thrvars == <<pc, arg, csr, ret>>
partvars == <<coordinates_, cell_, xi_, members, pcall>>
vars == <<Tdim, matvars, call, thrvars, partvars>>

----------------------------------------------------------------------------
(* double arithmetic *)

Abs(a) == IF a < 0 THEN -a ELSE a

RECURSIVE Gcd(_, _)
Gcd(a, b) == IF b = 0 THEN a ELSE Gcd(b, a % b)

RECURSIVE Pow10(_)
Pow10(k) == IF k = 0 THEN 1 ELSE 10 * Pow10(k - 1)

\* move the factors 2 and 5 of the denominator into the decimal exponent
RECURSIVE NormDen(_, _, _)
NormDen(n, d, e) ==
  IF d % 2 = 0 THEN NormDen(n * 5, d \div 2, e - 1)
  ELSE IF d % 5 = 0 THEN NormDen(n * 2, d \div 5, e - 1)
  ELSE [n |-> n, d |-> d, e |-> e]

\* move the factors 10 of the numerator into the decimal exponent
RECURSIVE StripTen(_)
StripTen(x) ==
  IF x.n % 10 = 0 THEN StripTen([n |-> x.n \div 10, d |-> x.d, e |-> x.e + 1])
  ELSE x

\* the canonical form of (n/d) * 10^e, d # 0
Norm(n, d, e) ==
  IF n = 0 THEN [n |-> 0, d |-> 1, e |-> 0]
  ELSE IF d = 1 THEN StripTen([n |-> n, d |-> 1, e |-> e])
  ELSE LET s == IF d < 0 THEN -1 ELSE 1
           g == Gcd(Abs(n), Abs(d))
       IN  StripTen(NormDen((s * n) \div g, (s * d) \div g, e))

Num(k) == Norm(k, 1, 0)
Zero == Num(0)

Mul(x, y) == Norm(x.n * y.n, x.d * y.d, x.e + y.e)
Div(x, y) == Norm(x.n * y.d, x.d * y.n, x.e - y.e)
Neg(x) == [x EXCEPT !.n = -x.n]
Add(x, y) ==
  IF x.n = 0 THEN y
  ELSE IF y.n = 0 THEN x
  ELSE LET e == IF x.e < y.e THEN x.e ELSE y.e
           a == x.n * Pow10(x.e - e)
           b == y.n * Pow10(y.e - e)
       IN  Norm(a * y.d + b * x.d, x.d * y.d, e)
Sub(x, y) == Add(x, Neg(y))

\* x < y; mantissas stay below 10^5, so a decimal shift past 5 decides alone
Less(x, y) ==
  LET a == x.n * y.d
      b == y.n * x.d
      k == x.e - y.e
  IN  IF k >= 0
      THEN IF k > 5 THEN a < 0 \/ (a = 0 /\ 0 < b) ELSE a * Pow10(k) < b
      ELSE IF -k > 5 THEN b > 0 \/ (b = 0 /\ a < 0) ELSE a < b * Pow10(-k)

ISqrt(k) == CHOOSE r \in 0..k : r * r = k
\* std::sqrt on the squares of rationals (the only arguments the inputs produce)
Sqrt(x) == Norm(ISqrt(x.n), ISqrt(x.d), x.e \div 2)

Vec(a, b, c, d, e, f) == <<Num(a), Num(b), Num(c), Num(d), Num(e), Num(f)>>
ZeroVec == Vec(0, 0, 0, 0, 0, 0)
Scale(m, v) == [i \in 1..6 |-> Mul(m, v[i])]
Dot(u, v) ==
  Add(Add(Add(Mul(u[1], v[1]), Mul(u[2], v[2])), Add(Mul(u[3], v[3]), Mul(u[4], v[4]))),
      Add(Mul(u[5], v[5]), Mul(u[6], v[6])))

----------------------------------------------------------------------------
(* inputs *)

MaxRate == 3

Keys == <<"density", "youngs_modulus", "poisson_ratio", "tau0", "mu",
          "critical_shear_rate">>

JNum(x) == [kind |-> "number", val |-> x]
JMissing == [kind |-> "missing", val |-> Zero]
JString == [kind |-> "string", val |-> Zero]

Config(rho, E, nu, t0, m, c) ==
  [density |-> JNum(rho), youngs_modulus |-> JNum(E), poisson_ratio |-> JNum(nu),
   tau0 |-> JNum(t0), mu |-> JNum(m), critical_shear_rate |-> JNum(c)]

\* 1.0E-15
ShearRateThreshold == Norm(1, 1, -15)

\* complete parameter sets: Newtonian with the critical shear rate below and at
\* the floor; Bingham above it with a negative, a positive and a zero viscosity
Configs ==
  { Config(Num(1), Num(3), Norm(1, 4, 0), Num(0), Num(1), Num(0)),
    Config(Num(1), Num(3), Num(0), Num(0), Num(2), ShearRateThreshold),
    Config(Num(1), Num(3), Num(0), Num(2), Norm(-1, 2, 0), Num(2)),
    Config(Num(1), Num(3), Norm(1, 4, 0), Num(2), Num(1), Num(2)),
    Config(Num(1), Num(3), Norm(1, 4, 0), Num(2), Num(0), Num(2)) }

EmptyJson == [k \in {Keys[i] : i \in 1..6} |-> JMissing]

\* a parameter set with key number i absent (or holding a string)
Broken(cfg, i, bad) == [cfg EXCEPT ![Keys[i]] = bad]

JsonInputs ==
  Configs \cup {Broken(cfg, i, bad) : cfg \in Configs, i \in 1..6,
                                      bad \in {JMissing, JString}}

Dims == {1, 2, 3}

Stresses == {ZeroVec, Vec(3, 6, 0, 1, 0, 2)}
DStrains == {ZeroVec, Vec(2, -1, 1, 3, 0, 0)}

\* strain rates a*(1,1,0,0,0,0), one with shear components, and two of
\* magnitude 1e-16; 2*(sr.sr) is the square of a rational for each
StrainRates ==
  {Vec(a, a, 0, 0, 0, 0) : a \in 0..MaxRate}
    \cup {Vec(0, 0, MaxRate, 0, -MaxRate, 0)}
    \cup {Scale(Norm(1, 1, -16), Vec(1, 1, 0, 0, 0, 0)),
          Scale(Norm(5, 1, -16), Vec(0, 0, 1, -1, 0, 0))}

----------------------------------------------------------------------------
(* mpm::Bingham<Tdim> *)

NoCall == [op |-> "none"]

\* material_properties[key].get<double>(): a value, or an exception
Parses(json, i) == json[Keys[i]].kind = "number"

\* the number of the first key whose read throws, 7 when none does
FirstFailure(json) ==
  IF \A i \in 1..6 : Parses(json, i) THEN 7
  ELSE CHOOSE i \in 1..6 : ~Parses(json, i) /\ \A j \in 1..(i - 1) : Parses(json, j)

\* a member after properties(): assigned when every earlier read succeeded
Assigned(old, json, i) ==
  IF FirstFailure(json) > i THEN json[Keys[i]].val ELSE old

\* status_ after properties()
StatusAfter(old, json) == IF FirstFailure(json) = 7 THEN TRUE ELSE old

Properties(json) ==
  /\ call = NoCall
  /\ density_' = Assigned(density_, json, 1)
  /\ youngs_modulus_' = Assigned(youngs_modulus_, json, 2)
  /\ poisson_ratio_' = Assigned(poisson_ratio_, json, 3)
  /\ tau0_' = Assigned(tau0_, json, 4)
  /\ mu_' = Assigned(mu_, json, 5)
  /\ critical_shear_rate_' = Assigned(critical_shear_rate_, json, 6)
  /\ properties_' = IF FirstFailure(json) = 7 THEN json ELSE properties_
  /\ status_' = StatusAfter(status_, json)
  /\ call' = [op |-> "properties", ok |-> \A i \in 1..6 : Parses(json, i)]
  /\ UNCHANGED <<Tdim, thrvars, partvars>>

ElasticTensor ==
  /\ call = NoCall
  /\ call' = [op |-> "elastic_tensor", outcome |-> "threw"]
  /\ UNCHANGED <<Tdim, matvars, thrvars, partvars>>

\* how the two-argument compute_stress ends
ComputeStress2Returns(stress, dstrain) == "returned"

ComputeStress2Outcome(stress, dstrain) == "threw"

\* the caller's stress after result = compute_stress(stress, dstrain)
ComputeStress2(stress, dstrain) ==
  /\ call = NoCall
  /\ call' = [op |-> "compute_stress2", outcome |-> ComputeStress2Outcome(stress, dstrain),
              before |-> stress,
              stress |-> IF ComputeStress2Outcome(stress, dstrain) = "threw"
                         THEN stress ELSE ZeroVec]
  /\ UNCHANGED <<Tdim, matvars, thrvars, partvars>>

BulkModulus(E, nu) == Div(E, Mul(Num(3), Sub(Num(1), Mul(Num(2), nu))))

Trace(s) == Add(Add(s[1], s[2]), s[3])

PressureNewNoThird(stress, dstrain, K) ==
  Add(Trace(stress), Mul(K, Trace(dstrain)))

PressureNew(stress, dstrain, K) ==
  LET pressure_old == Div(Trace(stress), Num(3))
      dpressure == Mul(K, Trace(dstrain))
  IN  Add(pressure_old, dpressure)

\* critical_shear_rate_ after the floor
ShearRateFloorDoubles(c) ==
  IF Less(c, ShearRateThreshold) THEN ShearRateThreshold ELSE Add(c, c)

ShearRateFloor(c) == IF Less(c, ShearRateThreshold) THEN ShearRateThreshold ELSE c

ShearRate(sr) == Mul(Num(2), Dot(sr, sr))

\* cc is critical_shear_rate_ * critical_shear_rate_
ModulusNoTwo(g, cc, t0, m) ==
  IF Less(cc, g) THEN Add(Div(t0, Sqrt(g)), m) ELSE Zero

Modulus(g, cc, t0, m) ==
  IF Less(cc, g) THEN Mul(Num(2), Add(Div(t0, Sqrt(g)), m)) ELSE Zero

VonMisesFlipped(tau, t0) ==
  IF Less(Mul(Num(2), Mul(t0, t0)), Dot(tau, tau)) THEN ZeroVec ELSE tau

VonMises(tau, t0) ==
  IF Less(Dot(tau, tau), Mul(Num(2), Mul(t0, t0))) THEN ZeroVec ELSE tau

\* the dimension dispatch; the 1D throw is caught in the same function, which
\* then returns the zeroed stress_results
Assemble(dim, tau, p) ==
  IF dim = 2
  THEN [outcome |-> "returned",
        value |-> <<Add(tau[1], p), Add(tau[2], p), Zero, tau[3], Zero, Zero>>]
  ELSE IF dim = 3
  THEN [outcome |-> "returned",
        value |-> [i \in 1..6 |-> Add(IF i <= 3 THEN p ELSE Zero, tau[i])]]
  ELSE [outcome |-> "returned", value |-> ZeroVec]

\* the three-argument compute_stress after the floor: cc is the product
\* critical_shear_rate_ * critical_shear_rate_ the yield test reads
Stress3(dim, E, nu, t0, m, cc, stress, dstrain, sr) ==
  LET modulus == Modulus(ShearRate(sr), cc, t0, m)
      tau == VonMises(Scale(modulus, sr), t0)
      r == Assemble(dim, tau, PressureNew(stress, dstrain, BulkModulus(E, nu)))
  IN  [modulus |-> modulus, tau |-> tau, outcome |-> r.outcome, value |-> r.value]

ComputeStress3(stress, dstrain, sr) ==
  /\ call = NoCall
  /\ critical_shear_rate_' = ShearRateFloor(critical_shear_rate_)
  /\ LET r == Stress3(Tdim, youngs_modulus_, poisson_ratio_, tau0_, mu_,
                      Mul(critical_shear_rate_', critical_shear_rate_'),
                      stress, dstrain, sr)
     IN  call' = [op |-> "compute_stress3", stress |-> stress, dstrain |-> dstrain,
                  strain_rate |-> sr, found |-> critical_shear_rate_,
                  modulus |-> r.modulus, tau |-> r.tau,
                  outcome |-> r.outcome, value |-> r.value]
  /\ UNCHANGED <<Tdim, density_, youngs_modulus_, poisson_ratio_, tau0_, mu_,
                 properties_, status_, thrvars, partvars>>

\* the caller takes the result; the material is ready for its next call
Return ==
  /\ call # NoCall
  /\ call' = NoCall
  /\ UNCHANGED <<Tdim, matvars, thrvars, partvars>>

----------------------------------------------------------------------------
(* the idle values of the state a specification leaves alone *)

NumThreads == 2
Threads == 1..NumThreads
NumParticles == 1
NumCells == 2
Particles == 1..NumParticles
Cells == 1..NumCells
NoCell == 0
NoPCall == [op |-> "none", p |-> 0, c |-> NoCell, ok |-> FALSE, again |-> FALSE]

NoArg == [stress |-> ZeroVec, dstrain |-> ZeroVec, strain_rate |-> ZeroVec]

ThreadsIdle ==
  /\ pc = [t \in Threads |-> "idle"]
  /\ arg = [t \in Threads |-> NoArg]
  /\ csr = [t \in Threads |-> Zero]
  /\ ret = [t \in Threads |-> ZeroVec]

ParticlesIdle ==
  /\ coordinates_ = [p \in Particles |-> 0]
  /\ cell_ = [p \in Particles |-> NoCell]
  /\ xi_ = [p \in Particles |-> 0]
  /\ members = [c \in Cells |-> {}]
  /\ pcall = NoPCall

----------------------------------------------------------------------------
(* one material, called sequentially *)

\* before properties() the members hold whatever the constructor left
Init ==
  /\ Tdim \in Dims
  /\ \E g \in Configs :
       /\ density_ = g.density.val
       /\ youngs_modulus_ = g.youngs_modulus.val
       /\ poisson_ratio_ = g.poisson_ratio.val
       /\ tau0_ = g.tau0.val
       /\ mu_ = g.mu.val
       /\ critical_shear_rate_ = g.critical_shear_rate.val
  /\ properties_ = EmptyJson
  /\ status_ = FALSE
  /\ call = NoCall
  /\ ThreadsIdle
  /\ ParticlesIdle

Next ==
  \/ \E json \in JsonInputs : Properties(json)
  \/ ElasticTensor
  \/ \E stress \in Stresses, dstrain \in DStrains : ComputeStress2(stress, dstrain)
  \/ \E stress \in Stresses, dstrain \in DStrains, sr \in StrainRates :
       ComputeStress3(stress, dstrain, sr)
  \/ Return

Spec == Init /\ [][Next]_vars

----------------------------------------------------------------------------
(* one stress pass: the particles' compute_stress calls on a shared material,
   interleaved at the reads and the write of critical_shear_rate_ *)

ParStrainRates ==
  {Vec(1, 1, 0, 0, 0, 0), Vec(MaxRate, MaxRate, 0, 0, 0, 0),
   Scale(Norm(1, 1, -16), Vec(1, 1, 0, 0, 0, 0))}
ParArgs ==
  {[stress |-> Vec(3, 6, 0, 1, 0, 2), dstrain |-> Vec(2, -1, 1, 3, 0, 0),
    strain_rate |-> sr] : sr \in ParStrainRates}

\* A read of critical_shear_rate_ that races with another call's pending store
\* of a different value sees the value in memory or a half-written one; the
\* two half-written patterns of 0 -> 1e-15 lie strictly between the two.
HalfWritten == {Norm(9, 1, -16), Norm(1, 1, -300)}
Observed(t) ==
  {critical_shear_rate_} \cup
    IF \E u \in Threads \ {t} :
         /\ pc[u] = "floor_store"
         /\ Less(critical_shear_rate_, ShearRateThreshold)
    THEN HalfWritten ELSE {}

\* the call is entered: strain rate, bulk modulus and pressure are locals
Enter(t, a) ==
  /\ pc[t] = "idle"
  /\ pc' = [pc EXCEPT ![t] = "floor_test"]
  /\ arg' = [arg EXCEPT ![t] = a]
  /\ UNCHANGED <<Tdim, matvars, call, csr, ret, partvars>>

\* if (critical_shear_rate_ < shear_rate_threshold)
FloorTest(t) ==
  /\ pc[t] = "floor_test"
  /\ \E v \in Observed(t) :
       pc' = [pc EXCEPT ![t] =
                IF ShearRateFloor(v) # v THEN "floor_store" ELSE "load1"]
  /\ UNCHANGED <<Tdim, matvars, call, arg, csr, ret, partvars>>

\* critical_shear_rate_ = shear_rate_threshold
FloorStore(t) ==
  /\ pc[t] = "floor_store"
  /\ critical_shear_rate_' = ShearRateFloor(critical_shear_rate_)
  /\ pc' = [pc EXCEPT ![t] = "load1"]
  /\ UNCHANGED <<Tdim, density_, youngs_modulus_, poisson_ratio_, tau0_, mu_,
                 properties_, status_, call, arg, csr, ret, partvars>>

\* the left operand of critical_shear_rate_ * critical_shear_rate_
Load1(t) ==
  /\ pc[t] = "load1"
  /\ \E v \in Observed(t) : csr' = [csr EXCEPT ![t] = v]
  /\ pc' = [pc EXCEPT ![t] = "load2"]
  /\ UNCHANGED <<Tdim, matvars, call, arg, ret, partvars>>

\* the right operand, and the rest of the call
Load2(t) ==
  /\ pc[t] = "load2"
  /\ \E v \in Observed(t) :
       ret' = [ret EXCEPT ![t] =
                 Stress3(Tdim, youngs_modulus_, poisson_ratio_, tau0_, mu_,
                         Mul(csr[t], v),
                         arg[t].stress, arg[t].dstrain, arg[t].strain_rate).value]
  /\ pc' = [pc EXCEPT ![t] = "done"]
  /\ UNCHANGED <<Tdim, matvars, call, arg, csr, partvars>>

\* a freshly configured material and every particle's call still to come
InitPar ==
  /\ Tdim \in {2, 3}
  /\ \E g \in Configs :
       /\ density_ = g.density.val
       /\ youngs_modulus_ = g.youngs_modulus.val
       /\ poisson_ratio_ = g.poisson_ratio.val
       /\ tau0_ = g.tau0.val
       /\ mu_ = g.mu.val
       /\ critical_shear_rate_ = g.critical_shear_rate.val
       /\ properties_ = g
  /\ status_ = TRUE
  /\ call = NoCall
  /\ ThreadsIdle
  /\ ParticlesIdle

NextPar ==
  \E t \in Threads :
    \/ \E a \in ParArgs : Enter(t, a)
    \/ FloorTest(t)
    \/ FloorStore(t)
    \/ Load1(t)
    \/ Load2(t)

SpecPar == InitPar /\ [][NextPar]_vars

----------------------------------------------------------------------------
(* mpm::Particle<Tdim, Tnphases>::assign_cell and remove_cell on a row of
   cells: cell c spans the points 2c - 2 .. 2c, so neighbours share an end point
   and the last point lies outside every cell *)

Positions == 0..(2 * NumCells + 1)

\* compute_reference_location succeeds for the point in the cell
Located(x, c) == x \in (2 * c - 2)..(2 * c)

\* the local coordinate it computes
XiIn(x, c) == x - (2 * c - 1)

\* the particle id taken out of the membership set of its current cell
DetachedNever(p) == members

Detached(p) ==
  IF cell_[p] = NoCell THEN members
  ELSE [members EXCEPT ![cell_[p]] = @ \ {p}]

AssignCellOutcome(p, c) ==
  IF Located(coordinates_[p], c) THEN "assigned"
  ELSE IF cell_[p] \notin {NoCell, c} /\ Located(coordinates_[p], cell_[p])
       THEN "retained"
  ELSE "cleared"

AssignCellStatusInserted(p, c) ==
  \/ AssignCellOutcome(p, c) = "retained"
  \/ AssignCellOutcome(p, c) = "assigned" /\ p \notin members[c]

AssignCellStatus(p, c) == AssignCellOutcome(p, c) # "cleared"

AssignCell(p, c) ==
  /\ cell_' = CASE AssignCellOutcome(p, c) = "assigned" -> [cell_ EXCEPT ![p] = c]
                [] AssignCellOutcome(p, c) = "retained" -> cell_
                [] OTHER -> [cell_ EXCEPT ![p] = NoCell]
  /\ members' = CASE AssignCellOutcome(p, c) = "assigned" ->
                       [Detached(p) EXCEPT ![c] = @ \cup {p}]
                  [] AssignCellOutcome(p, c) = "retained" -> members
                  [] OTHER -> Detached(p)
  /\ xi_' = IF AssignCellOutcome(p, c) = "assigned"
            THEN [xi_ EXCEPT ![p] = XiIn(coordinates_[p], c)]
            ELSE xi_
  /\ pcall' = [op |-> "assign_cell", p |-> p, c |-> c,
               ok |-> AssignCellStatus(p, c),
               again |-> /\ pcall.op = "assign_cell"
                         /\ pcall.p = p
                         /\ pcall.c = c
                         /\ pcall.ok]
  /\ UNCHANGED <<Tdim, matvars, call, thrvars, coordinates_>>

RemoveCell(p) ==
  /\ cell_' = [cell_ EXCEPT ![p] = NoCell]
  /\ members' = Detached(p)
  /\ pcall' = [NoPCall EXCEPT !.op = "remove_cell"]
  /\ UNCHANGED <<Tdim, matvars, call, thrvars, coordinates_, xi_>>

\* the position update of the time step moves the particle
MoveParticle(p, x) ==
  /\ x # coordinates_[p]
  /\ coordinates_' = [coordinates_ EXCEPT ![p] = x]
  /\ pcall' = [NoPCall EXCEPT !.op = "move"]
  /\ UNCHANGED <<Tdim, matvars, call, thrvars, cell_, xi_, members>>

InitCell ==
  /\ Tdim = 2
  /\ \E g \in {Config(Num(1), Num(3), Num(0), Num(0), Num(1), Num(2))} :
       /\ density_ = g.density.val
       /\ youngs_modulus_ = g.youngs_modulus.val
       /\ poisson_ratio_ = g.poisson_ratio.val
       /\ tau0_ = g.tau0.val
       /\ mu_ = g.mu.val
       /\ critical_shear_rate_ = g.critical_shear_rate.val
       /\ properties_ = g
  /\ status_ = TRUE
  /\ call = NoCall
  /\ ThreadsIdle
  /\ coordinates_ \in [Particles -> Positions]
  /\ cell_ = [p \in Particles |-> NoCell]
  /\ xi_ = [p \in Particles |-> 0]
  /\ members = [c \in Cells |-> {}]
  /\ pcall = NoPCall

NextCell ==
  \E p \in Particles :
    \/ \E c \in Cells : AssignCell(p, c)
    \/ RemoveCell(p)
    \/ \E x \in Positions : MoveParticle(p, x)

SpecCell == InitCell /\ [][NextCell]_vars

----------------------------------------------------------------------------
(* claims about the material called sequentially, checked under Spec *)

\* C1: every two-argument compute_stress ends in a throw, in every material
\* state, hands no stress to the caller and changes neither the caller's
\* stress nor the material.
C1_TwoArgAlwaysThrows ==
  [][call'.op = "compute_stress2" =>
       /\ call'.outcome = "threw"
       /\ call'.stress = call'.before
       /\ UNCHANGED matvars]_vars

\* reached: the two-argument call made on a configured material with a
\* nonzero stress
C1_Witness ==
  /\ call.op = "compute_stress2"
  /\ call.before # ZeroVec
  /\ status_

\* C2 as claimed: a three-argument compute_stress on a configured material
\* leaves the configuration and the status as they were.
C2_Pure ==
  [][(status_ /\ call'.op = "compute_stress3") => UNCHANGED matvars]_vars

\* C3 as claimed: after a properties() call the status is valid exactly when
\* that call supplied all six parameters.
C3_StatusIffComplete ==
  call.op = "properties" => (status_ <=> call.ok)

Pressure(s) == Div(Trace(s), Num(3))
Deviatoric(s) == [i \in 1..6 |-> IF i <= 3 THEN Sub(s[i], Pressure(s)) ELSE s[i]]
ExpectedPressure ==
  Add(Pressure(call.stress),
      Mul(Div(youngs_modulus_, Mul(Num(3), Sub(Num(1), Mul(Num(2), poisson_ratio_)))),
          Add(Add(call.dstrain[1], call.dstrain[2]), call.dstrain[3])))
AtRest ==
  /\ call.op = "compute_stress3"
  /\ call.strain_rate = ZeroVec
  /\ Tdim \in {2, 3}

\* C4 as claimed: at rest, in 2D and in 3D, the returned stress has a zero
\* deviatoric part and the pressure trace/3 = old pressure + K * volumetric(dstrain).
C4_AtRestOriginal ==
  AtRest => /\ Deviatoric(call.value) = ZeroVec
            /\ Pressure(call.value) = ExpectedPressure

\* C4 amended: at rest the deviatoric stress tau is zero and the returned stress
\* holds p_new = old pressure + K * volumetric(dstrain) on its first Tdim
\* diagonal components and zero elsewhere; in 3D that is a zero deviatoric
\* part and trace/3 = p_new, in 2D component 2 stays zero.
C4_AtRest ==
  AtRest => /\ call.tau = ZeroVec
            /\ \A i \in 1..6 :
                 call.value[i] = IF i <= Tdim THEN ExpectedPressure ELSE Zero
            /\ Tdim = 3 => /\ Deviatoric(call.value) = ZeroVec
                           /\ Pressure(call.value) = ExpectedPressure

\* reached: a 2D call at rest with a nonzero new pressure
C4_Witness ==
  /\ AtRest
  /\ Tdim = 2
  /\ call.dstrain # ZeroVec
  /\ call.value[1] # Zero

Newtonian ==
  /\ call.op = "compute_stress3"
  /\ tau0_ = Zero
  /\ critical_shear_rate_ = ShearRateThreshold
TwoMu == Mul(Num(2), mu_)

\* C5 as claimed: tau0 = 0, the critical shear rate at or below the floor and
\* any nonzero strain rate give modulus 2*mu and tau = 2*mu*strain_rate.
C5_NewtonianOriginal ==
  (Newtonian /\ call.strain_rate # ZeroVec) =>
     /\ call.modulus = TwoMu
     /\ call.tau = Scale(TwoMu, call.strain_rate)

\* C5 amended: the same for every strain rate with 2*(sr.sr) > (1e-15)^2.
C5_Newtonian ==
  (Newtonian /\ Less(Mul(ShearRateThreshold, ShearRateThreshold),
                     Mul(Num(2), Dot(call.strain_rate, call.strain_rate)))) =>
     /\ call.modulus = TwoMu
     /\ call.tau = Scale(TwoMu, call.strain_rate)

\* reached: a Newtonian call above the floor with a nonzero viscous stress
C5_Witness ==
  /\ Newtonian
  /\ Less(call.found, ShearRateThreshold)
  /\ call.tau # ZeroVec
  /\ call.tau = Scale(TwoMu, call.strain_rate)

\* C6 as claimed: the three-argument compute_stress of a 1-D instantiation
\* ends in an error and returns no stress.
C6_OneDThrows ==
  (call.op = "compute_stress3" /\ Tdim \notin {2, 3}) => call.outcome = "threw"

\* C10: with g = 2*(sr.sr) and c = max(critical_shear_rate, 1e-15), tau is
\* zero when g <= c^2 and when the trial tau has tau.tau < 2*tau0^2; otherwise
\* it is the trial 2*(tau0/sqrt(g) + mu)*sr unchanged; so tau is zero or has
\* tau.tau >= 2*tau0^2.
C10_YieldLogic ==
  call.op = "compute_stress3" =>
    LET sr == call.strain_rate
        g == Mul(Num(2), Dot(sr, sr))
        c == IF Less(call.found, ShearRateThreshold)
             THEN ShearRateThreshold ELSE call.found
        yield2 == Mul(Num(2), Mul(tau0_, tau0_))
        trial == Scale(Mul(Num(2), Add(Div(tau0_, Sqrt(g)), mu_)), sr)
        tau == call.tau
    IN  /\ IF ~Less(Mul(c, c), g) THEN tau = ZeroVec
           ELSE IF Less(Dot(trial, trial), yield2) THEN tau = ZeroVec
           ELSE tau = trial
        /\ tau = ZeroVec \/ ~Less(Dot(tau, tau), yield2)

\* reached: the Von Mises check zeroing a nonzero trial stress
C10_Witness ==
  /\ call.op = "compute_stress3"
  /\ call.modulus # Zero
  /\ call.strain_rate # ZeroVec
  /\ call.tau = ZeroVec

----------------------------------------------------------------------------
(* claims about one stress pass, checked under SpecPar *)

\* what the call returns when it is the only call made on the material as
\* properties() configured it
Alone(a) ==
  LET c == IF Less(properties_.critical_shear_rate.val, ShearRateThreshold)
           THEN ShearRateThreshold ELSE properties_.critical_shear_rate.val
  IN  Stress3(Tdim, properties_.youngs_modulus.val, properties_.poisson_ratio.val,
              properties_.tau0.val, properties_.mu.val, Mul(c, c),
              a.stress, a.dstrain, a.strain_rate).value

\* C9: whatever the order and interleaving of the particles' calls on the
\* shared material, each call returns what it returns when made alone on the
\* freshly configured material.
C9_Independent ==
  \A t \in Threads : pc[t] = "done" => ret[t] = Alone(arg[t])

\* reached: two calls finished after the floor was stored during the pass,
\* with different results
C9_Witness ==
  /\ pc[1] = "done"
  /\ pc[2] = "done"
  /\ critical_shear_rate_ # properties_.critical_shear_rate.val
  /\ ret[1] # ret[2]

----------------------------------------------------------------------------
(* claims about a particle and its cell, checked under SpecCell *)

C8_Idempotent ==
  [][(/\ pcall'.op = "assign_cell"
      /\ pcall'.again
      /\ Located(coordinates_[pcall'.p], pcall'.c))
       => pcall'.ok /\ UNCHANGED <<xi_, cell_, members>>]_vars

\* reached: the second of two such calls has returned
C8_Witness ==
  /\ pcall.op = "assign_cell"
  /\ pcall.again
  /\ pcall.ok
  /\ Located(coordinates_[pcall.p], pcall.c)
  /\ cell_[pcall.p] = pcall.c
  /\ pcall.p \in members[pcall.c]

====
